---- MODULE Spec2Model ----
(***************************************************************************)
(* APICheck: a declarative HTTP/JSON API test runner.                      *)
(*                                                                         *)
(* The repository holds two variants of the same program:                  *)
(*   "pkg"    : src/apicheck/apicheck.py  (the packaged module)            *)
(*   "legacy" : src/apicheck.py           (the older top-level script)     *)
(* Both are modelled; the state variable `variant` says which one an       *)
(* instance runs.  Python 3 semantics (the sources use FileNotFoundError). *)
(*                                                                         *)
(* One APICheck instance is modelled.  run_all_tests is split into its     *)
(* loop: RunStart (lines 142-148), one RunCase per iteration (lines        *)
(* 151-192, the call of __run_test and both result handlers included) and  *)
(* RunFinish (line 196).  An exception that leaves a public method is      *)
(* recorded in `exc`, and control returns to the caller (pc = "idle").    *)
(* Between calls the caller may render the results (Output) or load        *)
(* another tests file (LoadTests, lines 128-136).                          *)
(***************************************************************************)
EXTENDS Integers, Sequences, FiniteSets, TLC

VARIABLES
    variant,             \* which source file the instance runs
    tests,               \* self.tests: the loaded suite, a sequence of cases
    run_tests,           \* the list the loop of run_all_tests iterates over: the
                         \* value self.tests had when the current (or most
                         \* recent) call reached enumerate(self.tests)
    has_results,         \* whether the attribute self.results exists yet, that is,
                         \* whether run_all_tests has been called on the instance
    results,             \* self.results
    passed,              \* self.passed
    failed,              \* self.failed
    total_elapsed_time,  \* self.total_elapsed_time
    pc,                  \* "idle" (no call in progress) or "running"
    index,               \* number of loop iterations of the current run begun
    clock,               \* time.time() - total_start_time: wall-clock time since
                         \* the current (or most recent) call of run_all_tests began
    exc,                 \* exception that left the most recent call of
                         \* run_all_tests ("none" when it returned or still runs)
    sent,                \* the cases whose HTTP request was sent in this run, in the
                         \* order of sending (RequestOf gives the request of a case)
    resps,               \* what the HTTP layer did for each case begun in this run
    out                  \* what the most recent render call wrote

vars == <<variant, tests, run_tests, has_results, results, passed, failed,
          total_elapsed_time, pc, index, clock, exc,
          sent, resps, out>>

(***************************************************************************)
(* Bounds of the model.                                                    *)
(***************************************************************************)
MaxTests == 2
MaxClock == 1

(***************************************************************************)
(* Python values as json.load / r.json() produce them.  t is the runtime   *)
(* type, n the numeric value in hundredths (0 for non-numbers), s what     *)
(* str() renders.                                                          *)
(***************************************************************************)
Str(s) == [t |-> "str", n |-> 0, s |-> s]
Int1 == [t |-> "int", n |-> 100, s |-> "1"]
Int2 == [t |-> "int", n |-> 200, s |-> "2"]
Float1 == [t |-> "float", n |-> 100, s |-> "1.0"]
Float314 == [t |-> "float", n |-> 314, s |-> "3.14"]
PyTrue == [t |-> "bool", n |-> 100, s |-> "True"]
StrA == Str("a")

Numeric == {"int", "float", "bool"}

\* Python's == on decoded JSON values: numbers (bool included) compare by
\* value across types, everything else by type and content.
PyEq(a, b) ==
    IF a.t \in Numeric /\ b.t \in Numeric
    THEN a.n = b.n
    ELSE a.t = b.t /\ a.s = b.s

\* isinstance(val, cls) for cls in str, int, float; bool is a subclass of int.
IsInstance(val, cls) ==
    \/ cls = "str" /\ val.t = "str"
    \/ cls = "int" /\ val.t \in {"int", "bool"}
    \/ cls = "float" /\ val.t = "float"

\* str(cls) of a Python 3 type object.
ClassStr(cls) == "<class '" \o cls \o "'>"

\* str.upper() on the method strings of the model.
Upper(s) ==
    CASE s = "get" -> "GET"
      [] s = "post" -> "POST"
      [] s = "put" -> "PUT"
      [] OTHER -> s

(***************************************************************************)
(* Outcomes of __run_test.                                                 *)
(***************************************************************************)
Ok == [kind |-> "ok", info |-> ""]
Failed(msg) == [kind |-> "failed", info |-> msg]     \* TestFailedException(msg)
Raise(e) == [kind |-> "raise", info |-> e]           \* any other exception

(***************************************************************************)
(* What the HTTP layer does with one request.                              *)
(***************************************************************************)
NoResp == [kind |-> "none", t |-> "", items |-> <<>>]      \* no request sent
ConnFail == [kind |-> "conn", t |-> "", items |-> <<>>]    \* requests raises ConnectionError
NotJson == [kind |-> "nojson", t |-> "", items |-> <<>>]   \* r.json() raises ValueError
JsonList == [kind |-> "json", t |-> "list", items |-> <<>>] \* body is a JSON array
Obj(items) == [kind |-> "json", t |-> "dict", items |-> items]

(***************************************************************************)
(* Messages of TestFailedException, as the sources format them.            *)
(***************************************************************************)
MalformedKeyMsg(key) ==
    "Malformed test. Must provide '" \o key \o "' in tests file."
MalformedMethodMsg == "Malformed test. Allowed methods are GET and POST"
DecodeMsg == "Could not decode JSON from response."
ValueMismatchMsg(exp_val, key, actual) ==
    "Expected value '" \o exp_val.s \o "' at key '" \o key
        \o "' but got '" \o actual.s \o "'."
KeyNotFoundMsg(key) == "Expected key '" \o key \o "' not found."
\* pkg: one literal.  legacy: a backslash-continued literal that keeps the
\* indentation of its second line (seven tabs and two spaces).
MalformedTypeMsg(v) ==
    IF v = "pkg"
    THEN "Malformed test. Expected types allowed: 'str', 'int', 'float'"
    ELSE "Malformed test. \t\t\t\t\t\t\t  Expected types allowed: 'str', 'int', 'float'"
get_expected_type_error_message(key, val, expected_type) ==
    "Invalid type at key '" \o key \o "'. Expected '" \o ClassStr(expected_type)
        \o "' got '" \o ClassStr(val.t) \o "'."
NameSentinel == "ERROR: NAME NOT PROVIDED"

\* __test_expected_type: isinstance or TestFailedException.
test_expected_type(key, val, exp_type) ==
    IF IsInstance(val, exp_type)
    THEN Ok
    ELSE Failed(get_expected_type_error_message(key, val, exp_type))

(***************************************************************************)
(* __run_test.  A dict of the tests file is a function from the keys it    *)
(* has; expected_response_values / expected_response_types are sequences   *)
(* of <<key, value>> pairs in declaration order with distinct keys (the    *)
(* iteration order of a dict).                                             *)
(***************************************************************************)
Has(test, key) == key \in DOMAIN test

\* A request sent before the case is looked at.
SendsRequest_Always(test) == TRUE

\* First part: required keys, method dispatch.  TRUE iff a request is sent.
SendsRequest(test) ==
    /\ Has(test, "name") /\ Has(test, "url") /\ Has(test, "method")
    /\ test["method"].t = "str"
    /\ Upper(test["method"].s) \in {"GET", "POST"}

\* The request of a case: requests.get(url) or requests.post(url[, json=payload]).
\* The pkg variant prefixes the base url.
BaseUrl == "http://h"
RequestOf(v, test) ==
    [method |-> Upper(test["method"].s),
     url |-> IF v = "pkg" THEN BaseUrl \o test["url"] ELSE test["url"],
     json |-> IF Upper(test["method"].s) = "POST" /\ Has(test, "payload")
              THEN <<test["payload"]>> ELSE <<>>]

\* resp[key] on the decoded body: TypeError on a non-dict, KeyError on a
\* missing key ("" when the subscript succeeds).
SubscriptError(resp, key) ==
    IF resp.t # "dict" THEN "TypeError"
    ELSE IF key \notin DOMAIN resp.items THEN "KeyError"
    ELSE ""

\* A value loop that passes over a key the response lacks (resp.get(key)
\* in place of resp[key], None never reported).
RECURSIVE CheckValues_SkipMissing(_, _, _)
CheckValues_SkipMissing(ev, resp, i) ==
    IF i > Len(ev) THEN Ok
    ELSE IF resp.t # "dict" THEN Raise("TypeError")
    ELSE IF ev[i][1] \notin DOMAIN resp.items
         THEN CheckValues_SkipMissing(ev, resp, i + 1)
    ELSE IF ~PyEq(ev[i][2], resp.items[ev[i][1]])
         THEN Failed(ValueMismatchMsg(ev[i][2], ev[i][1], resp.items[ev[i][1]]))
         ELSE CheckValues_SkipMissing(ev, resp, i + 1)

\* A value loop that visits the keys in reverse declaration order
\* (for key in reversed(list(...))).
RECURSIVE CheckValues_Reversed(_, _, _)
CheckValues_Reversed(ev, resp, i) ==
    IF i > Len(ev) THEN Ok
    ELSE LET later == CheckValues_Reversed(ev, resp, i + 1)
             err == SubscriptError(resp, ev[i][1])
         IN  IF later.kind # "ok" THEN later
             ELSE IF err = "TypeError" THEN Raise("TypeError")
             ELSE IF err = "KeyError" THEN Failed(KeyNotFoundMsg(ev[i][1]))
             ELSE IF ~PyEq(ev[i][2], resp.items[ev[i][1]])
                  THEN Failed(ValueMismatchMsg(ev[i][2], ev[i][1],
                                               resp.items[ev[i][1]]))
                  ELSE Ok

\* The loop over expected_response_values, from position i on.
RECURSIVE CheckValues(_, _, _)
CheckValues(ev, resp, i) ==
    IF i > Len(ev) THEN Ok
    ELSE LET key == ev[i][1]
             exp_val == ev[i][2]
             err == SubscriptError(resp, key)
         IN  IF err = "TypeError" THEN Raise("TypeError")
             ELSE IF err = "KeyError" THEN Failed(KeyNotFoundMsg(key))
             ELSE IF ~PyEq(exp_val, resp.items[key])
                  THEN Failed(ValueMismatchMsg(exp_val, key, resp.items[key]))
                  ELSE CheckValues(ev, resp, i + 1)

\* One iteration of the loop over expected_response_types.
\* pkg reads resp[key] before it looks at the tag and checks through
\* __test_expected_type; legacy looks at the tag first, reads resp[key] inside
\* the branch and, on a mismatch, calls self.get_type_error_message, which
\* does not exist (the method is __get_type_error_message): AttributeError.
CheckOneType(v, key, exp_type, resp) ==
    LET err == SubscriptError(resp, key)
        cls == CASE exp_type = "string" -> "str"
                 [] exp_type = "int" -> "int"
                 [] exp_type = "float" -> "float"
                 [] OTHER -> ""
        sub == IF err = "TypeError" THEN Raise("TypeError")
               ELSE Failed(KeyNotFoundMsg(key))
    IN  IF v = "pkg"
        THEN IF err # "" THEN sub
             ELSE IF cls = "" THEN Failed(MalformedTypeMsg(v))
             ELSE test_expected_type(key, resp.items[key], cls)
        ELSE IF cls = "" THEN Failed(MalformedTypeMsg(v))
             ELSE IF err # "" THEN sub
             ELSE IF IsInstance(resp.items[key], cls) THEN Ok
             ELSE Raise("AttributeError")

\* A type loop that never runs (the expected_response_types block dropped).
CheckTypes_Skipped(v, et, resp, i) == Ok

\* The loop over expected_response_types, from position i on.
RECURSIVE CheckTypes(_, _, _, _)
CheckTypes(v, et, resp, i) ==
    IF i > Len(et) THEN Ok
    ELSE LET r == CheckOneType(v, et[i][1], et[i][2], resp)
         IN  IF r.kind = "ok" THEN CheckTypes(v, et, resp, i + 1) ELSE r

\* __run_test(test), given what the HTTP layer does with the request.
run_test(v, test, resp) ==
    IF ~Has(test, "name") THEN Failed(MalformedKeyMsg("name"))
    ELSE IF ~Has(test, "url") THEN Failed(MalformedKeyMsg("url"))
    ELSE IF ~Has(test, "method") THEN Failed(MalformedKeyMsg("method"))
    ELSE IF test["method"].t # "str" THEN Raise("AttributeError")
    ELSE IF Upper(test["method"].s) \notin {"GET", "POST"}
         THEN Failed(MalformedMethodMsg)
    ELSE IF resp.kind = "conn" THEN Raise("ConnectionError")
    ELSE IF resp.kind = "nojson" THEN Failed(DecodeMsg)
    ELSE LET rv == IF Has(test, "expected_response_values")
                   THEN CheckValues(test["expected_response_values"], resp, 1)
                   ELSE Ok
         IN  IF rv.kind # "ok" THEN rv
             ELSE IF Has(test, "expected_response_types")
                  THEN CheckTypes(v, test["expected_response_types"], resp, 1)
                  ELSE Ok

(***************************************************************************)
(* __output_results(format): what is written to the stream and which       *)
(* exception, if any, leaves the call.  success_percent is kept as the     *)
(* exact fraction num/den of the float the code computes.                  *)
(***************************************************************************)
\* Nothing written.
Blank == [fmt |-> "", summary |-> <<>>, test_results |-> <<>>]
\* No render call made since the last run began.
NoOut == [doc |-> Blank, exc |-> ""]

TextEntry(res) ==
    IF res.status = "FAILED"
    THEN [name |-> res.name, status |-> res.status,
          elapsed_time |-> res.elapsed_time, error_msg |-> res.error_msg]
    ELSE [name |-> res.name, status |-> res.status,
          elapsed_time |-> res.elapsed_time]

output_results(v, format, p, f, tet, hasres, res) ==
    IF v = "legacy" /\ p + f = 0
    THEN [doc |-> Blank, exc |-> "ZeroDivisionError"]
    ELSE LET total_tests == IF v = "pkg" /\ p + f = 0 THEN 1 ELSE p + f
             success_percent == [num |-> p * 100, den |-> total_tests]
             summary == <<[passed |-> p, failed |-> f,
                           success_percentage |-> success_percent,
                           total_elapsed_time |-> tet]>>
         IN  IF format \in {"json", "JSON"}
             THEN IF ~hasres
                  THEN [doc |-> Blank, exc |-> "AttributeError"]
                  ELSE [doc |-> [fmt |-> "JSON", summary |-> summary,
                                 test_results |-> res],
                        exc |-> "none"]
             ELSE IF format \in {"text", "TEXT"}
             THEN IF ~hasres
                  THEN [doc |-> [fmt |-> "TEXT", summary |-> summary,
                                 test_results |-> <<>>],
                        exc |-> "AttributeError"]
                  ELSE [doc |-> [fmt |-> "TEXT", summary |-> summary,
                                 test_results |->
                                     [i \in 1..Len(res) |-> TextEntry(res[i])]],
                        exc |-> "none"]
             ELSE [doc |-> Blank, exc |-> "none"]

(***************************************************************************)
(* The inputs of the model: test cases and HTTP behaviours.                *)
(***************************************************************************)
Case(nm, method) == ("name" :> nm) @@ ("url" :> "/x") @@ ("method" :> method)

T_plain == Case("t1", Str("GET"))
T_noname == ("url" :> "/x") @@ ("method" :> Str("GET"))
T_nourl == ("name" :> "t2") @@ ("method" :> Str("GET"))
T_nomethod == ("name" :> "t3") @@ ("url" :> "/x")
T_put == Case("t4", Str("PUT"))
T_vals == Case("t6", Str("post")) @@ ("payload" :> Int1)
            @@ ("expected_response_values" :> << <<"id", Int1>>, <<"x", StrA>> >>)
            @@ ("expected_response_types" :> << <<"id", "float">> >>)
T_types == Case("t7", Str("get"))
            @@ ("expected_response_types" :> << <<"x", "string">>, <<"id", "int">> >>)
T_unknown == Case("t8", Str("GET"))
            @@ ("expected_response_types" :> << <<"id", "bool">> >>)

CasePool == {T_plain, T_noname, T_nourl, T_nomethod, T_put,
             T_vals, T_types, T_unknown}

O_empty == Obj(<<>>)
O_1 == Obj(("id" :> Int1))
O_1a == Obj(("id" :> Int1) @@ ("x" :> StrA))
O_f1 == Obj(("id" :> Float1) @@ ("x" :> StrA))
O_2 == Obj(("id" :> Int2) @@ ("x" :> Int1))
O_t == Obj(("id" :> PyTrue) @@ ("x" :> StrA))
O_pi == Obj(("id" :> Float314) @@ ("x" :> StrA))

RespPool == {ConnFail, NotJson, JsonList,
             O_empty, O_1, O_1a, O_f1, O_2, O_t, O_pi}

Formats == {"json", "TEXT"}

Suites == UNION {[1..n -> CasePool] : n \in 0..MaxTests}

(***************************************************************************)
(* The instance after __init__ (lines 122-126): tests loaded, counters 0,  *)
(* no results attribute yet.                                               *)
(***************************************************************************)
Init ==
    /\ variant \in {"pkg", "legacy"}
    /\ tests \in Suites
    /\ run_tests = <<>>
    /\ has_results = FALSE
    /\ results = <<>>
    /\ passed = 0
    /\ failed = 0
    /\ total_elapsed_time = 0
    /\ pc = "idle"
    /\ index = 0
    /\ clock = 0
    /\ exc = "none"
    /\ sent = <<>>
    /\ resps = <<>>
    /\ out = NoOut

\* run_all_tests, up to the loop.
RunStart ==
    /\ pc = "idle"
    /\ results' = <<>>
    /\ has_results' = TRUE
    /\ clock' = 0
    /\ passed' = 0
    /\ failed' = 0
    /\ pc' = "running"
    /\ index' = 0
    /\ exc' = "none"
    /\ sent' = <<>>
    /\ resps' = <<>>
    /\ out' = NoOut
    /\ run_tests' = tests
    /\ UNCHANGED <<variant, tests, total_elapsed_time>>

\* self.results.insert(0, entry) in place of append.
AppendResult_Front(res, entry) == <<entry>> \o res

\* self.results.append(entry)
AppendResult(res, entry) == Append(res, entry)

\* A counter whose increment was forgotten.
Bump_Never(n, taken) == n

\* self.passed += 1 / self.failed += 1, in the branch that is taken.
Bump(n, taken) == IF taken THEN n + 1 ELSE n

\* The result the PASSED branch appends.
PassedResult(test, elapsed) ==
    [name |-> test["name"], status |-> "PASSED", elapsed_time |-> elapsed]

\* The result the except branch appends; legacy reads test["name"] unguarded.
FailedResult(v, test, elapsed, msg) ==
    [name |-> IF Has(test, "name") THEN test["name"] ELSE NameSentinel,
     status |-> "FAILED", elapsed_time |-> elapsed, error_msg |-> msg]

\* What one loop iteration ends in: "PASSED", "FAILED", or the exception
\* that leaves run_all_tests.
IterationEnd(v, test, r) ==
    IF r.kind = "ok" THEN "PASSED"
    ELSE IF r.kind = "raise" THEN r.info
    ELSE IF v = "legacy" /\ ~Has(test, "name") THEN "KeyError"
    ELSE "FAILED"

\* One iteration of the loop of run_all_tests.
RunCase ==
    /\ pc = "running"
    /\ index < Len(run_tests)
    /\ LET test == run_tests[index + 1] IN
       \E resp \in (IF SendsRequest(test) THEN RespPool ELSE {NoResp}) :
         LET r == run_test(variant, test, resp)
             e == IterationEnd(variant, test, r)
         IN  \E dt \in (IF SendsRequest(test) THEN 0..1 ELSE {0}) :
               /\ clock + dt <= MaxClock
               /\ results' = IF e = "PASSED"
                             THEN AppendResult(results, PassedResult(test, dt))
                             ELSE IF e = "FAILED"
                             THEN AppendResult(results,
                                      FailedResult(variant, test, dt, r.info))
                             ELSE results
               /\ passed' = Bump(passed, e = "PASSED")
               /\ failed' = Bump(failed, e = "FAILED")
               /\ pc' = IF e \in {"PASSED", "FAILED"} THEN "running" ELSE "idle"
               /\ exc' = IF e \in {"PASSED", "FAILED"} THEN "none" ELSE e
               /\ clock' = clock + dt
               /\ resps' = Append(resps, resp)
               /\ sent' = IF SendsRequest(test) THEN Append(sent, index + 1) ELSE sent
               /\ index' = index + 1
    /\ UNCHANGED <<variant, tests, run_tests, has_results,
                   total_elapsed_time, out>>

\* run_all_tests, after the loop.
RunFinish ==
    /\ pc = "running"
    /\ index = Len(run_tests)
    /\ total_elapsed_time' = clock
    /\ pc' = "idle"
    /\ UNCHANGED <<variant, tests, run_tests, has_results, results, passed,
                   failed, index, clock, exc, sent, resps, out>>

\* print_results / write_results_to_file.
Output ==
    /\ pc = "idle"
    /\ \E format \in Formats :
         LET o == output_results(variant, format, passed, failed,
                                 total_elapsed_time, has_results, results)
         IN  out' = o
    /\ UNCHANGED <<variant, tests, run_tests, has_results, results, passed,
                   failed, total_elapsed_time, pc, index, clock, exc, sent,
                   resps>>

\* The suites of the files load_tests_file is called with after __init__
\* (every suite of Suites is loaded by __init__ in some behaviour): an empty
\* file, a shorter, a longer and a different suite.
ReloadPool ==
    {<<>>, <<T_plain>>, <<T_put, T_vals>>, <<T_types, T_unknown>>}

\* load_tests_file(fname) on the instance, between calls: self.tests is
\* replaced by the suite the file holds; nothing else is touched.
LoadTests ==
    /\ pc = "idle"
    /\ \E suite \in ReloadPool : tests' = suite
    /\ UNCHANGED <<variant, run_tests, has_results, results, passed, failed,
                   total_elapsed_time, pc, index, clock, exc, sent, resps, out>>

Next == RunStart \/ RunCase \/ RunFinish \/ Output \/ LoadTests

Spec == Init /\ [][Next]_vars

\* An instance of the packaged module src/apicheck/apicheck.py only.
InitPkg == Init /\ variant = "pkg"
SpecPkg == InitPkg /\ [][Next]_vars

TypeOK ==
    /\ pc \in {"idle", "running"}
    /\ index \in 0..Len(run_tests)
    /\ passed + failed = Len(results)

(***************************************************************************)
(* Vocabulary of the properties.                                           *)
(***************************************************************************)
\* run_all_tests has been called and its most recent call returned normally.
Returned == pc = "idle" /\ has_results /\ exc = "none"

\* Case i of the current (or most recent) run has a result, with status st.
RecordedAs(i, st) == i <= Len(results) /\ results[i].status = st

\* The name a result of the case carries.
ResultName(test) == IF Has(test, "name") THEN test["name"] ELSE NameSentinel

\* How iteration i ends, from the case's own definition and its own response.
Outcome(i) == IterationEnd(variant, run_tests[i], run_test(variant, run_tests[i], resps[i]))

\* The declared expectations of a case, as sets of <<key, expectation>> pairs.
Pairs(seq) == {seq[k] : k \in DOMAIN seq}
ValuesOf(test) ==
    IF Has(test, "expected_response_values")
    THEN Pairs(test["expected_response_values"]) ELSE {}
TypesOf(test) ==
    IF Has(test, "expected_response_types")
    THEN Pairs(test["expected_response_types"]) ELSE {}

\* The response is a JSON object holding key.
Present(resp, key) == resp.t = "dict" /\ key \in DOMAIN resp.items

\* The value has the type a tag declares: textual, integral (a boolean
\* counts), floating-point.
HasDeclaredType(val, tag) ==
    \/ tag = "string" /\ val.t = "str"
    \/ tag = "int" /\ val.t \in {"int", "bool"}
    \/ tag = "float" /\ val.t = "float"

ValueHolds(resp, p) == Present(resp, p[1]) /\ PyEq(p[2], resp.items[p[1]])
TypeHolds(resp, p) == Present(resp, p[1]) /\ HasDeclaredType(resp.items[p[1]], p[2])

AllChecksHold(test, resp) ==
    /\ \A p \in ValuesOf(test) : ValueHolds(resp, p)
    /\ \A p \in TypesOf(test) : TypeHolds(resp, p)

(***************************************************************************)
(* C1: when run_all_tests returns, passed + failed equals the number N of  *)
(* test cases of the suite it ran, results holds exactly N entries, and    *)
(* the i-th entry is the outcome of the i-th case (its name, and the       *)
(* status its own definition and response give).                           *)
(***************************************************************************)
C1_ReturnAccountsForEveryCase ==
    Returned =>
        /\ passed + failed = Len(run_tests)
        /\ Len(results) = Len(run_tests)
        /\ \A i \in 1..Len(run_tests) :
              /\ results[i].name = ResultName(run_tests[i])
              /\ results[i].status = Outcome(i)

C1_Witness ==
    /\ Returned
    /\ Len(run_tests) = 2
    /\ run_tests[1] # run_tests[2]
    /\ passed = 1
    /\ failed = 1

(***************************************************************************)
(* C2: every error that arises while executing one test case is caught     *)
(* inside run_all_tests and recorded as a FAILED result; no per-test error *)
(* leaves run_all_tests: no exception reaches the caller and every case    *)
(* begun has its result.                                                   *)
(***************************************************************************)
C2_NoPerTestErrorEscapes ==
    /\ exc = "none"
    /\ Len(results) = index

(***************************************************************************)
(* C3: a failing case never stops the run: once a case is recorded FAILED, *)
(* every later case of the suite is executed and gets the status its own   *)
(* definition and response give.                                           *)
(***************************************************************************)
C3_FailureNeverStopsRun ==
    (pc = "idle" /\ has_results) =>
        \A i \in 1..Len(results) :
            results[i].status = "FAILED" =>
                \A j \in (i + 1)..Len(run_tests) :
                    /\ j <= index
                    /\ RecordedAs(j, Outcome(j))

(***************************************************************************)
(* C4: a case with name, url and a GET/POST method whose response decodes  *)
(* as JSON is recorded PASSED if and only if every key of                  *)
(* expected_response_values is present in the response with an equal value *)
(* and every key of expected_response_types is present with a value of the *)
(* declared type, whatever the order of the checks; a case with neither    *)
(* map passes on any JSON response.                                        *)
(***************************************************************************)
C4_PassedIffAllChecksHold ==
    \A i \in 1..index :
        (SendsRequest(run_tests[i]) /\ resps[i].kind = "json") =>
            (RecordedAs(i, "PASSED") <=> AllChecksHold(run_tests[i], resps[i]))

C4_Witness ==
    /\ index = 2
    /\ run_tests[1] = T_vals /\ resps[1] = O_f1 /\ RecordedAs(1, "PASSED")
    /\ run_tests[2] = T_plain /\ resps[2] = JsonList /\ RecordedAs(2, "PASSED")

(***************************************************************************)
(* C5: a case whose expected_response_values has a key that is absent from *)
(* the (JSON object) response is recorded FAILED, and when that key is the *)
(* first failing check the message is the key-not-found message naming     *)
(* exactly that key.                                                       *)
(***************************************************************************)
C5_AbsentValueKeyFails ==
    \A i \in 1..index :
        (resps[i].kind = "json" /\ resps[i].t = "dict"
            /\ Has(run_tests[i], "expected_response_values")) =>
            LET ev == run_tests[i]["expected_response_values"]
                resp == resps[i]
            IN  \A k \in DOMAIN ev :
                    ~Present(resp, ev[k][1]) =>
                        /\ RecordedAs(i, "FAILED")
                        /\ (\A j \in 1..(k - 1) : ValueHolds(resp, ev[j])) =>
                               results[i].error_msg = KeyNotFoundMsg(ev[k][1])

C5_Witness ==
    /\ index >= 1
    /\ run_tests[1] = T_vals
    /\ resps[1] = O_1
    /\ RecordedAs(1, "FAILED")
    /\ results[1].error_msg = "Expected key 'x' not found."

(***************************************************************************)
(* C6: the type check of a key of expected_response_types passes exactly   *)
(* when the response value is textual for "string", integral for "int" (a  *)
(* boolean counts) and floating-point for "float"; otherwise the case is   *)
(* recorded FAILED with the type-mismatch message naming the key, the      *)
(* expected type and the actual runtime type.  Stated for the first type   *)
(* check that does not hold, all value checks holding.                     *)
(***************************************************************************)
TagClass(tag) ==
    CASE tag = "string" -> "str" [] tag = "int" -> "int" [] OTHER -> "float"

C6_TypeCheckByTag ==
    \A i \in 1..index :
        (SendsRequest(run_tests[i]) /\ resps[i].kind = "json" /\ resps[i].t = "dict"
            /\ (\A p \in ValuesOf(run_tests[i]) : ValueHolds(resps[i], p))
            /\ Has(run_tests[i], "expected_response_types")) =>
            LET et == run_tests[i]["expected_response_types"]
                resp == resps[i]
            IN  /\ (\A k \in DOMAIN et : TypeHolds(resp, et[k])) =>
                       RecordedAs(i, "PASSED")
                /\ \A k \in DOMAIN et :
                      (/\ \A j \in 1..(k - 1) : TypeHolds(resp, et[j])
                       /\ Present(resp, et[k][1])
                       /\ et[k][2] \in {"string", "int", "float"}
                       /\ ~HasDeclaredType(resp.items[et[k][1]], et[k][2])) =>
                          /\ RecordedAs(i, "FAILED")
                          /\ results[i].error_msg =
                                get_expected_type_error_message(
                                    et[k][1], resp.items[et[k][1]],
                                    TagClass(et[k][2]))

(***************************************************************************)
(* C7: rendering in either format when passed = 0 and failed = 0 (no run   *)
(* made yet, or a run over an empty suite) reports success_percentage 0    *)
(* and raises no exception.                                                *)
(***************************************************************************)
C7_RenderWithNoTests ==
    (out.exc # "" /\ passed = 0 /\ failed = 0) =>
        /\ out.exc = "none"
        /\ out.doc.summary # <<>>
        /\ out.doc.summary[1].success_percentage.num = 0

(***************************************************************************)
(* C8: a case lacking name, url or method is recorded as a FAILED result   *)
(* whose message names the missing key and whose name is the case's name   *)
(* when present and the sentinel otherwise, whichever field is missing.    *)
(***************************************************************************)
C8_MissingFieldRecorded ==
    \A i \in 1..index :
        LET missing == {"name", "url", "method"} \ DOMAIN run_tests[i]
        IN  missing # {} =>
                /\ RecordedAs(i, "FAILED")
                /\ \E k \in missing : results[i].error_msg = MalformedKeyMsg(k)
                /\ results[i].name = ResultName(run_tests[i])

(***************************************************************************)
(* C9: after any sequence of calls of run_all_tests, results, passed,      *)
(* failed and total_elapsed_time describe only the most recent call:       *)
(* the results and counters are those of the cases that call ran, and      *)
(* total_elapsed_time is the wall-clock span of that call.                 *)
(***************************************************************************)
C9_OnlyMostRecentCall ==
    (pc = "idle" /\ has_results) =>
        /\ Len(results) <= index
        /\ \A i \in 1..Len(results) : results[i].status = Outcome(i)
        /\ passed + failed = Len(results)
        /\ total_elapsed_time = clock

(***************************************************************************)
(* C10: in every reachable state each entry of results has status PASSED   *)
(* or FAILED and carries an error_msg field if and only if it is FAILED;   *)
(* passed is the number of PASSED entries and failed the number of FAILED  *)
(* entries.                                                                *)
(***************************************************************************)
CountStatus(st) == Cardinality({i \in 1..Len(results) : results[i].status = st})

C10_ResultsWellFormed ==
    /\ \A i \in 1..Len(results) :
          /\ results[i].status \in {"PASSED", "FAILED"}
          /\ ("error_msg" \in DOMAIN results[i]) <=> (results[i].status = "FAILED")
    /\ passed = CountStatus("PASSED")
    /\ failed = CountStatus("FAILED")

C10_Witness ==
    /\ Len(results) = 2
    /\ results[1].status = "FAILED"
    /\ results[2].status = "PASSED"

(***************************************************************************)
(* C11: a case whose expected_response_types maps a key to a tag other     *)
(* than "string", "int" or "float" is recorded FAILED with the             *)
(* malformed-test message whenever the check of that key is reached (the   *)
(* response is a JSON object, every value check and every earlier type     *)
(* check holds), whether or not the key is present in the response.        *)
(***************************************************************************)
KnownTags == {"string", "int", "float"}

\* The type check at position k of case i is reached.
TypeCheckReached(i, k) ==
    /\ SendsRequest(run_tests[i])
    /\ resps[i].kind = "json" /\ resps[i].t = "dict"
    /\ \A p \in ValuesOf(run_tests[i]) : ValueHolds(resps[i], p)
    /\ Has(run_tests[i], "expected_response_types")
    /\ k \in DOMAIN run_tests[i]["expected_response_types"]
    /\ \A j \in 1..(k - 1) :
          TypeHolds(resps[i], run_tests[i]["expected_response_types"][j])

C11_UnknownTagMalformed ==
    \A i \in 1..index :
        Has(run_tests[i], "expected_response_types") =>
            \A k \in DOMAIN run_tests[i]["expected_response_types"] :
                (/\ TypeCheckReached(i, k)
                 /\ run_tests[i]["expected_response_types"][k][2] \notin KnownTags) =>
                    /\ RecordedAs(i, "FAILED")
                    /\ results[i].error_msg = MalformedTypeMsg(variant)

(***************************************************************************)
(* C12: the checks of one case short-circuit in a fixed order: required    *)
(* fields, method, response decoding, the value checks in the declared key *)
(* order of expected_response_values, the type checks in the declared key  *)
(* order of expected_response_types.  A recorded case is FAILED exactly    *)
(* when some check fails, its error_msg is that of the first failing check *)
(* only, and for a value mismatch it names the key, the expected value and *)
(* the actual value.                                                       *)
(***************************************************************************)
RequiredFields == {"name", "url", "method"}

Least(S) == CHOOSE x \in S : \A y \in S : x <= y

ValueSeq(test) ==
    IF Has(test, "expected_response_values")
    THEN test["expected_response_values"] ELSE <<>>
TypeSeq(test) ==
    IF Has(test, "expected_response_types")
    THEN test["expected_response_types"] ELSE <<>>

\* The positions of the declared checks that do not hold on the response.
FailingValues(test, resp) ==
    {k \in DOMAIN ValueSeq(test) : ~ValueHolds(resp, ValueSeq(test)[k])}
FailingTypes(test, resp) ==
    {k \in DOMAIN TypeSeq(test) : ~TypeHolds(resp, TypeSeq(test)[k])}

\* The message of a value check that does not hold.
ValueCheckMsg(resp, p) ==
    IF Present(resp, p[1])
    THEN ValueMismatchMsg(p[2], p[1], resp.items[p[1]])
    ELSE KeyNotFoundMsg(p[1])

\* The messages a type check that does not hold may give (which of the two
\* an absent key with an unknown tag gives is the matter of C11).
TypeCheckMsgs(v, resp, p) ==
    (IF ~Present(resp, p[1]) THEN {KeyNotFoundMsg(p[1])} ELSE {})
    \cup (IF p[2] \notin KnownTags THEN {MalformedTypeMsg(v)} ELSE {})
    \cup (IF Present(resp, p[1]) /\ p[2] \in KnownTags
          THEN {get_expected_type_error_message(p[1], resp.items[p[1]],
                                                TagClass(p[2]))}
          ELSE {})

\* The messages of the first check, in the fixed order, that fails for the
\* case on the response; empty when every check holds.
FirstFailureMsgs(v, test, resp) ==
    IF RequiredFields \ DOMAIN test # {}
    THEN {MalformedKeyMsg(k) : k \in RequiredFields \ DOMAIN test}
    ELSE IF ~SendsRequest(test) THEN {MalformedMethodMsg}
    ELSE IF resp.kind = "nojson" THEN {DecodeMsg}
    ELSE IF FailingValues(test, resp) # {}
         THEN {ValueCheckMsg(resp, ValueSeq(test)[Least(FailingValues(test, resp))])}
    ELSE IF FailingTypes(test, resp) # {}
         THEN TypeCheckMsgs(v, resp, TypeSeq(test)[Least(FailingTypes(test, resp))])
    ELSE {}

C12_FirstFailureOnly ==
    \A i \in 1..Len(results) :
        LET msgs == FirstFailureMsgs(variant, run_tests[i], resps[i])
        IN  /\ (results[i].status = "FAILED") <=> (msgs # {})
            /\ results[i].status = "FAILED" => results[i].error_msg \in msgs

\* Both value checks and the type check fail; only the first is reported.
C12_Witness ==
    /\ Len(results) >= 1
    /\ run_tests[1] = T_vals
    /\ resps[1] = O_2
    /\ FailingValues(run_tests[1], resps[1]) = {1, 2}
    /\ FailingTypes(run_tests[1], resps[1]) = {1}
    /\ results[1].error_msg = "Expected value '1' at key 'id' but got '2'."

(***************************************************************************)
(* C13: during a run at most one HTTP request is sent per test case,       *)
(* requests are sent in test-case order with the result of case i appended *)
(* before the request of case i+1 is sent, and no request is sent for a    *)
(* case that lacks name, url or method or whose method is neither GET nor  *)
(* POST.                                                                   *)
(***************************************************************************)
\* The case has name, url and method, and the method is GET or POST.
WellFormed(test) ==
    /\ RequiredFields \subseteq DOMAIN test
    /\ Upper(test["method"].s) \in {"GET", "POST"}

\* The requests of the run so far: distinct cases, in case order, each
\* well formed.
RequestsInOrder ==
    /\ \A m, n \in DOMAIN sent : m < n => sent[m] < sent[n]
    /\ \A n \in DOMAIN sent : sent[n] \in 1..index /\ WellFormed(run_tests[sent[n]])

\* A step that sends a request sends exactly one, for the next case of the
\* suite, and every earlier case of the run has its result by then.
SendsNextOnly ==
    (sent' # sent /\ sent' # <<>>) =>
        /\ sent' = Append(sent, index + 1)
        /\ WellFormed(run_tests[index + 1])
        /\ Len(results) = index

C13_RequestsSequential == [] RequestsInOrder /\ [][SendsNextOnly]_vars

\* A malformed case got its result without a request, then the next case
\* sent the only request of the run.
C13_Witness ==
    /\ index = 2
    /\ ~WellFormed(run_tests[1])
    /\ sent = <<2>>
    /\ Len(results) = 2

====
